---------------------------- MODULE Spec2Model ----------------------------
(***************************************************************************)
(* AiderFixer webhook receiver (daoch4n/ai).                               *)
(*                                                                         *)
(* The repository holds five variants of the entry point:                  *)
(*   "app"      src/src/index.js lines 1-369    (GitHub App, real calls)   *)
(*   "fallback" src/src/index.js lines 371-1027 (forced fallback mode)     *)
(*   "mock"     src/unnamed/part_000            (forced mock Octokit)      *)
(*   "new"      src/src/index.new.js            (inline token + comment)   *)
(*   "simple"   src/src/index.simple.js         (PAT, no verification)     *)
(*                                                                         *)
(* The specifications share the variables:                                 *)
(*   Spec        one HTTP request handled by one of the variants           *)
(*   SpecFair    Spec with the handler's steps and the timers scheduled    *)
(*   SpecProc    processIssue of the "app" variant, invoked directly for   *)
(*               overlapping deliveries of the same issue                  *)
(*   SpecRedeliver  Spec with the same request delivered a second time     *)
(*   SpecVerify  verifyWebhookSignature applied to bodies, secrets and     *)
(*               header values, followed by a parse of the request body    *)
(*   SpecToken   the installation-token providers called for each delivery *)
(*   SpecTokenFair  SpecToken with the provider's steps and timers         *)
(*               scheduled                                                 *)
(***************************************************************************)
EXTENDS Integers, Sequences, FiniteSets

VARIABLES
    \* ---- Spec: one HTTP request ----
    variant,      \* which entry point is deployed
    secret,       \* env.WEBHOOK_SECRET (<<>> when unset)
    patSet,       \* env.PAT_PAT is set
    req,          \* the request: method, path, headers, payload
    hpc,          \* position of the fetch handler
    resp,         \* the Response returned (NoResp until then)
    sigResult,    \* outcome of verifyWebhookSignature for the request
    parsed,       \* the payload was parsed and the dispatcher entered
    invoked,      \* the issue processor was invoked for the delivery
    calls,        \* upstream calls started for the delivery, in order
    proc,         \* state of the detached processMockIssue
    timer,        \* the AbortController timer of the delivery
    \* ---- SpecProc: processIssue of the "app" variant ----
    pc,           \* per delivery: the call processIssue is about to make
    log,          \* per delivery: the upstream calls made, with replies
    err,          \* per delivery: the call whose failure entered catch
    issueLabels,  \* labels on the issue, on the GitHub side
    branchExists, \* refs/heads/ai-fix/issue-<N> exists on the GitHub side
    \* ---- SpecVerify: the signature verifier as a function ----
    vVer,         \* which verifyWebhookSignature is applied
    vBody,        \* raw request body (bytes)
    vSecret,      \* the secret passed in
    vSig,         \* x-hub-signature-256 header value (NoSig when absent)
    vResult,      \* what the call produced
    vBodyUsed,    \* request.bodyUsed: the original body stream was read
    vParsed,      \* what a read of the original body after the call gave
    \* ---- SpecToken: the installation-token providers ----
    tVer,         \* which token provider is applied
    tAuth,        \* createAppAuth succeeds ("ok") or throws ("throw")
    tpc,          \* per delivery: position of the provider
    tTimer,       \* per delivery: the 2-second timer of the token race
    tCause,       \* per delivery: why the acquisition failed ("none" if not)
    \* ---- SpecRedeliver: the same webhook delivered twice ----
    round,        \* 1 for the first delivery, 2 for the redelivery
    prior         \* what the first delivery did: response, calls, invoked

httpVars == <<variant, secret, patSet, req, hpc, resp, sigResult, parsed,
              invoked, calls, proc, timer>>
procVars == <<pc, log, err, issueLabels, branchExists>>
verVars  == <<vVer, vBody, vSecret, vSig, vResult, vBodyUsed, vParsed>>
tokVars  == <<tVer, tAuth, tpc, tTimer, tCause>>
redVars  == <<round, prior>>
vars     == <<httpVars, procVars, verVars, tokVars, redVars>>

---------------------------------------------------------------------------
(* Bounds of the model *)

NumDeliveries == 2   \* overlapping deliveries in SpecProc
MaxBodyLen == 2      \* longest raw body in SpecVerify
MaxSecretLen == 1    \* longest secret in SpecVerify

---------------------------------------------------------------------------
(* Strings are sequences of one-character strings, so that comparisons are *)
(* computed character by character.                                        *)

TriggerLabel == <<"a","i","d","e","r","-","p","r","o">>

Labels ==
    { TriggerLabel,
      <<"A","i","d","e","r","-","p","r","o">>,
      <<"A","I","D","E","R","-","P","R","O">>,
      <<"a","i","d","e","r">>,
      <<"a","i","d","e","r","-","p","r","o","-","x">>,
      <<"x","a","i","d","e","r","-","p","r","o">>,
      <<"b","u","g">> }

LowerChar(c) ==
    CASE c = "A" -> "a" [] c = "I" -> "i" [] c = "D" -> "d" [] c = "E" -> "e"
      [] c = "R" -> "r" [] c = "P" -> "p" [] c = "O" -> "o" [] OTHER -> c

ToLower(s) == [i \in DOMAIN s |-> LowerChar(s[i])]

Includes(s, sub) ==
    \E k \in 0..(Len(s) - Len(sub)) :
        \A i \in 1..Len(sub) : s[k + i] = sub[i]

---------------------------------------------------------------------------
(* Signature verifier                                                      *)

Bytes == {0, 1}

RECURSIVE SeqsUpTo(_, _)
SeqsUpTo(S, n) ==
    IF n = 0 THEN { <<>> }
    ELSE LET shorter == SeqsUpTo(S, n - 1)
         IN  shorter \cup { Append(s, x) : s \in { t \in shorter : Len(t) = n - 1 }, x \in S }

NoSig == <<"~">>     \* request.headers.get(...) returned null

HexChar(b) == IF b = 0 THEN "0" ELSE "1"
HexOf(bs) == [i \in DOMAIN bs |-> HexChar(bs[i])]

\* HMAC-SHA256, hex-encoded: an injective function of (key, data).
HmacHex(key, data) == HexOf(key) \o <<"f">> \o HexOf(data)

SigPrefix == <<"s","h","a","2","5","6","=">>
HeaderFor(key, data) == SigPrefix \o HmacHex(key, data)

\* crypto.subtle.importKey('raw', bytes, HMAC/SHA-256, false, usages):
\* a zero-length key is rejected (DataError).
ImportKey(raw, usages) ==
    [ok |-> Len(raw) > 0, raw |-> raw, usages |-> usages]

\* crypto.subtle.sign('HMAC', key, data): rejected (InvalidAccessError)
\* unless the key was imported with the "sign" usage.
SubtleSign(key, data) ==
    [ok |-> "sign" \in key.usages, hex |-> HmacHex(key.raw, data)]

\* verifyWebhookSignature of the "app" variant: "true", "false", or "throw"
\* when an awaited crypto call rejects (the function has no try/catch).
VerifyApp(signature, body, sec) ==
    IF signature = NoSig THEN "false"
    ELSE LET key == ImportKey(sec, {"verify"})
         IN  IF ~key.ok THEN "throw"
             ELSE LET signed == SubtleSign(key, body)
                  IN  IF ~signed.ok THEN "throw"
                      ELSE IF signature = SigPrefix \o signed.hex
                           THEN "true" ELSE "false"

\* verifyWebhookSignature of the "fallback" and "mock" variants: the first
\* statement is `return true`, the rest of the body is never reached.
VerifyTesting(signature, body, sec) == "true"

verifyWebhookSignature(ver, signature, body, sec) ==
    IF ver = "app" THEN VerifyApp(signature, body, sec)
    ELSE VerifyTesting(signature, body, sec)

---------------------------------------------------------------------------
(* HTTP entry points                                                       *)

Variants == {"app", "fallback", "mock", "new", "simple"}
RouterVariants == {"app", "fallback", "mock"}

Events == {"issues", "push"}
ActionNames == {"labeled", "opened"}

\* Shape of the request body: valid JSON with every field, not JSON at all,
\* or JSON lacking one field of the issues/labeled payload.
Shapes == {"ok", "badjson", "nolabel", "norepo", "noissue", "noinst"}

WebhookSecret == <<1>>   \* the secret GitHub signs deliveries with
SampleBody == <<0, 1>>   \* raw bytes of the request body

SigHeaders ==
    { NoSig,
      HeaderFor(WebhookSecret, SampleBody),       \* signed by GitHub
      HeaderFor(WebhookSecret, <<1, 1>>) }        \* signature of another body

R(status, kind) == [status |-> status, kind |-> kind]
NoResp == R(0, "none")

Requests ==
    { [method |-> "POST", path |-> p, sig |-> sg, shape |-> sh,
       event |-> e, action |-> a, label |-> l] :
          p \in {"/", "/webhook", "/other"}, sg \in SigHeaders, sh \in Shapes,
          e \in Events, a \in ActionNames, l \in Labels }
    \cup
    { [method |-> m, path |-> p, sig |-> NoSig, shape |-> "ok",
       event |-> "issues", action |-> "labeled", label |-> TriggerLabel] :
          m \in {"GET", "PUT"}, p \in {"/", "/webhook"} }

\* event === 'issues' && body.action === 'labeled'
IsLabeledEvent(event, action) == event = "issues" /\ action = "labeled"

IsTriggerLabel_IgnoreCase(label) == ToLower(label) = TriggerLabel

IsTriggerLabel_Includes(label) == Includes(label, TriggerLabel)

\* label === 'aider-pro'
IsTriggerLabel(label) == label = TriggerLabel

\* Reading body.<field>.<...> throws a TypeError when the field is absent.
Lacks(shape, field) ==
    \/ shape = "nolabel" /\ field = "label"
    \/ shape = "norepo" /\ field = "repository"
    \/ shape = "noissue" /\ field = "issue"
    \/ shape = "noinst" /\ field = "installation"

Start(op) == Append(calls, [op |-> op, st |-> "pending"])
Settle(st) == [calls EXCEPT ![Len(calls)].st = st]
Pending(op) ==
    /\ Len(calls) > 0
    /\ calls[Len(calls)].op = op
    /\ calls[Len(calls)].st = "pending"

Respond(status, kind) ==
    /\ hpc' = "responded"
    /\ resp' = R(status, kind)

\* An exception leaves the handler: router.handle rejects, no Response.
Crash ==
    /\ hpc' = "crashed"
    /\ resp' = NoResp

MockIssueResult_Awaited(fetchState) ==
    IF fetchState = "pending" THEN "running" ELSE "returned_true"

\* processMockIssue of index.js: the fetch promise is not awaited, `return
\* true` follows the call at once, whatever becomes of the request.
MockIssueResult(fetchState) == "returned_true"

\* processIssue as the handler starts it (detached, .catch attached).
\*   fallback: forceFallback -> getFallbackOctokit -> processMockIssue, which
\*             starts the repository-dispatch fetch and returns true;
\*   mock:     forceFallback -> mock client -> processMockIssue, suspended
\*             at its first await;
\*   app:      processIssue proper (specification SpecProc).
InvokeProcessIssue ==
    /\ invoked' = TRUE
    /\ IF variant = "fallback"
       THEN /\ calls' = Start("repository_dispatch")
            /\ timer' = "armed"
            /\ proc' = MockIssueResult("pending")
       ELSE /\ proc' = "running"
            /\ UNCHANGED <<calls, timer>>

\* router.post('/webhook') of index.js and part_000
RouterWebhook ==
    LET sr == verifyWebhookSignature(variant, req.sig, SampleBody, secret)
    IN  /\ sigResult' = sr
        /\ IF sr = "throw"
           THEN Crash /\ UNCHANGED <<parsed, invoked, calls, proc, timer>>
           ELSE IF sr = "false"
           THEN /\ Respond(401, "unauthorized")
                /\ UNCHANGED <<parsed, invoked, calls, proc, timer>>
           ELSE IF req.shape = "badjson"
           THEN Crash /\ UNCHANGED <<parsed, invoked, calls, proc, timer>>
           ELSE
             /\ parsed' = TRUE
             /\ IF ~IsLabeledEvent(req.event, req.action)
                THEN /\ Respond(200, "event_received")
                     /\ UNCHANGED <<invoked, calls, proc, timer>>
                ELSE IF Lacks(req.shape, "label")
                THEN Crash /\ UNCHANGED <<invoked, calls, proc, timer>>
                ELSE IF ~IsTriggerLabel(req.label)
                THEN /\ Respond(200, "event_received")
                     /\ UNCHANGED <<invoked, calls, proc, timer>>
                ELSE IF \/ Lacks(req.shape, "repository")
                        \/ Lacks(req.shape, "issue")
                        \/ Lacks(req.shape, "installation")
                THEN Crash /\ UNCHANGED <<invoked, calls, proc, timer>>
                ELSE /\ InvokeProcessIssue
                     /\ Respond(202, "processing")

RouterRoute_MethodBlind(method, path) ==
    IF path \in {"/", "/webhook"} THEN "webhook" ELSE "not_found"

\* The itty-router table: router.post('/webhook'), router.get('/'),
\* router.all('*'), matched in this order on method and path.
RouterRoute(method, path) ==
    IF method = "POST" /\ path = "/webhook" THEN "webhook"
    ELSE IF method = "GET" /\ path = "/" THEN "status"
    ELSE "not_found"

\* export default { fetch } of index.js and part_000: router.handle
RouterFetch ==
    /\ variant \in RouterVariants
    /\ hpc = "start"
    /\ IF RouterRoute(req.method, req.path) = "webhook"
       THEN RouterWebhook
       ELSE /\ IF RouterRoute(req.method, req.path) = "status"
               THEN Respond(200, "status_page")
               ELSE Respond(404, "not_found")
            /\ UNCHANGED <<sigResult, parsed, invoked, calls, proc, timer>>
    /\ UNCHANGED <<procVars, verVars, tokVars, redVars, variant, secret, patSet, req>>

\* The mock client's calls only log; processMockIssue runs to `return true`.
MockProcess ==
    /\ variant = "mock"
    /\ proc = "running"
    /\ proc' = "returned_true"
    /\ UNCHANGED <<procVars, verVars, tokVars, redVars, variant, secret, patSet, req, hpc, resp, sigResult, parsed,
                   invoked, calls, timer>>

\* The repository-dispatch fetch of processMockIssue settles.
FallbackDispatchReply ==
    /\ variant = "fallback"
    /\ Pending("repository_dispatch")
    /\ \E ok \in BOOLEAN :
          /\ calls' = Settle(IF ok THEN "ok" ELSE "failed")
          /\ timer' = IF ok /\ timer = "armed" THEN "off" ELSE timer
    /\ UNCHANGED <<procVars, verVars, tokVars, redVars, variant, secret, patSet, req, hpc, resp, sigResult, parsed,
                   invoked, proc>>

\* The 2-second timer of processMockIssue fires: controller.abort().
FallbackTimer ==
    /\ variant = "fallback"
    /\ timer = "armed"
    /\ timer' = "fired"
    /\ calls' = IF Pending("repository_dispatch") THEN Settle("aborted") ELSE calls
    /\ UNCHANGED <<procVars, verVars, tokVars, redVars, variant, secret, patSet, req, hpc, resp, sigResult, parsed,
                   invoked, proc>>

\* fetch of index.new.js up to its first upstream call or its response.
\* Any TypeError is caught by the handler's try/catch and answered 500.
NewFetch ==
    /\ variant = "new"
    /\ hpc = "start"
    /\ IF req.method = "GET"
       THEN /\ Respond(200, "status_page")
            /\ UNCHANGED <<sigResult, parsed, invoked, calls>>
       ELSE IF req.method # "POST"
       THEN /\ Respond(405, "method_not_allowed")
            /\ UNCHANGED <<sigResult, parsed, invoked, calls>>
       ELSE IF req.sig = NoSig
       THEN /\ sigResult' = "false"
            /\ Respond(401, "unauthorized")
            /\ UNCHANGED <<parsed, invoked, calls>>
       ELSE
         /\ sigResult' = "true"
         /\ IF req.shape = "badjson"
            THEN Respond(500, "error") /\ UNCHANGED <<parsed, invoked, calls>>
            ELSE
              /\ parsed' = TRUE
              /\ IF ~IsLabeledEvent(req.event, req.action)
                 THEN Respond(200, "success") /\ UNCHANGED <<invoked, calls>>
                 ELSE IF Lacks(req.shape, "label")
                 THEN Respond(500, "error") /\ UNCHANGED <<invoked, calls>>
                 ELSE IF ~IsTriggerLabel(req.label)
                 THEN Respond(200, "success") /\ UNCHANGED <<invoked, calls>>
                 ELSE
                   /\ invoked' = TRUE
                   /\ IF \/ Lacks(req.shape, "issue")
                         \/ Lacks(req.shape, "installation")
                      THEN Respond(500, "error") /\ UNCHANGED calls
                      ELSE /\ calls' = Start("access_token")
                           /\ hpc' = "await_token"
                           /\ resp' = resp
    /\ UNCHANGED <<procVars, verVars, tokVars, redVars, variant, secret, patSet, req, proc, timer>>

\* getInstallationToken: the access_tokens fetch settles.
NewTokenReply ==
    /\ variant = "new"
    /\ hpc = "await_token"
    /\ Pending("access_token")
    /\ \E ok \in BOOLEAN :
          IF ~ok
          THEN calls' = Settle("failed") /\ Respond(500, "error")
          ELSE IF Lacks(req.shape, "repository")
          THEN calls' = Settle("ok") /\ Respond(500, "error")
          ELSE /\ calls' = Append(Settle("ok"), [op |-> "create_comment", st |-> "pending"])
               /\ hpc' = "await_comment"
               /\ resp' = resp
    /\ UNCHANGED <<procVars, verVars, tokVars, redVars, variant, secret, patSet, req, sigResult, parsed, invoked,
                   proc, timer>>

\* addCommentToIssue: the comment fetch settles.
NewCommentReply ==
    /\ variant = "new"
    /\ hpc = "await_comment"
    /\ Pending("create_comment")
    /\ \E ok \in BOOLEAN :
          IF ~ok
          THEN calls' = Settle("failed") /\ Respond(500, "error")
          ELSE /\ calls' = Append(Settle("ok"), [op |-> "add_label_ai_processing", st |-> "pending"])
               /\ hpc' = "await_label"
               /\ resp' = resp
    /\ UNCHANGED <<procVars, verVars, tokVars, redVars, variant, secret, patSet, req, sigResult, parsed, invoked,
                   proc, timer>>

\* addLabelToIssue: the label fetch settles.
NewLabelReply ==
    /\ variant = "new"
    /\ hpc = "await_label"
    /\ Pending("add_label_ai_processing")
    /\ \E ok \in BOOLEAN :
          /\ calls' = Settle(IF ok THEN "ok" ELSE "failed")
          /\ IF ok THEN Respond(200, "success") ELSE Respond(500, "error")
    /\ UNCHANGED <<procVars, verVars, tokVars, redVars, variant, secret, patSet, req, sigResult, parsed, invoked,
                   proc, timer>>

TokenMissing_Ignored(set) == FALSE

\* const token = env.PAT_PAT; if (!token) throw ...
TokenMissing(set) == ~set

\* fetch of index.simple.js up to its first upstream call or its response.
SimpleFetch ==
    /\ variant = "simple"
    /\ hpc = "start"
    /\ IF req.method = "GET"
       THEN /\ Respond(200, "status_page")
            /\ UNCHANGED <<parsed, invoked, calls, timer>>
       ELSE IF req.method # "POST"
       THEN /\ Respond(405, "method_not_allowed")
            /\ UNCHANGED <<parsed, invoked, calls, timer>>
       ELSE IF req.shape = "badjson"
       THEN Respond(500, "error") /\ UNCHANGED <<parsed, invoked, calls, timer>>
       ELSE
         /\ parsed' = TRUE
         /\ IF ~IsLabeledEvent(req.event, req.action)
            THEN Respond(200, "success") /\ UNCHANGED <<invoked, calls, timer>>
            ELSE IF Lacks(req.shape, "label")
            THEN Respond(500, "error") /\ UNCHANGED <<invoked, calls, timer>>
            ELSE IF ~IsTriggerLabel(req.label)
            THEN Respond(200, "success") /\ UNCHANGED <<invoked, calls, timer>>
            ELSE
              /\ invoked' = TRUE
              /\ IF Lacks(req.shape, "issue") \/ TokenMissing(patSet)
                 THEN Respond(500, "error") /\ UNCHANGED <<calls, timer>>
                 ELSE IF Lacks(req.shape, "repository")
                 \* TypeError inside the inner try: caught, timer cleared
                 THEN Respond(200, "success") /\ UNCHANGED <<calls, timer>>
                 ELSE /\ calls' = Start("create_comment")
                      /\ timer' = "armed"
                      /\ hpc' = "await_comment"
                      /\ resp' = resp
    /\ UNCHANGED <<procVars, verVars, tokVars, redVars, variant, secret, patSet, req, sigResult, proc>>

LabelAttempted_Regardless(commentOk) == TRUE

\* The label fetch follows the comment fetch in the same try block: a
\* rejected fetch or the throw on !commentResponse.ok skips it.
LabelAttempted(commentOk) == commentOk

\* The comment fetch of index.simple.js settles; a failure or a non-ok
\* status is caught by the inner try/catch and the handler answers 200.
SimpleCommentReply ==
    /\ variant = "simple"
    /\ hpc = "await_comment"
    /\ Pending("create_comment")
    /\ timer' = "off"
    /\ \E ok \in BOOLEAN :
          IF ~LabelAttempted(ok)
          THEN calls' = Settle("failed") /\ Respond(200, "success")
          ELSE /\ calls' = Append(Settle(IF ok THEN "ok" ELSE "failed"),
                                  [op |-> "add_label_ai_processing", st |-> "pending"])
               /\ hpc' = "await_label"
               /\ resp' = resp
    /\ UNCHANGED <<procVars, verVars, tokVars, redVars, variant, secret, patSet, req, sigResult, parsed, invoked, proc>>

\* The 5-second timer fires while the comment fetch is pending.
SimpleCommentAbort ==
    /\ variant = "simple"
    /\ hpc = "await_comment"
    /\ Pending("create_comment")
    /\ timer = "armed"
    /\ timer' = "fired"
    /\ calls' = Settle("aborted")
    /\ Respond(200, "success")
    /\ UNCHANGED <<procVars, verVars, tokVars, redVars, variant, secret, patSet, req, sigResult, parsed, invoked, proc>>

\* The label fetch of index.simple.js settles; every outcome answers 200.
SimpleLabelReply ==
    /\ variant = "simple"
    /\ hpc = "await_label"
    /\ Pending("add_label_ai_processing")
    /\ \E ok \in BOOLEAN : calls' = Settle(IF ok THEN "ok" ELSE "failed")
    /\ Respond(200, "success")
    /\ UNCHANGED <<procVars, verVars, tokVars, redVars, variant, secret, patSet, req, sigResult, parsed, invoked,
                   proc, timer>>

ModuleState_Remembers(cs) == cs

\* What the module scope retains of a finished delivery's calls for the next
\* one: nothing. Every binding the handlers write is a const or let of the
\* handler; the module scope holds the router and the imports only.
ModuleState(cs) == <<>>

\* GitHub delivers the same webhook again after the first delivery is over:
\* a new invocation of fetch with the same request and environment.
Redeliver ==
    /\ round = 1
    /\ hpc \in {"responded", "crashed"}
    /\ \A i \in DOMAIN calls : calls[i].st # "pending"
    /\ proc # "running"
    /\ round' = 2
    /\ prior' = [resp |-> resp, calls |-> calls, invoked |-> invoked]
    /\ hpc' = "start"
    /\ resp' = NoResp
    /\ sigResult' = "none"
    /\ parsed' = FALSE
    /\ invoked' = FALSE
    /\ calls' = ModuleState(calls)
    /\ proc' = "idle"
    /\ timer' = "off"
    /\ UNCHANGED <<procVars, verVars, tokVars, variant, secret, patSet, req>>

---------------------------------------------------------------------------
(* processIssue of the "app" variant (index.js lines 49-289)               *)

Deliveries == 1..NumDeliveries

Successor_PullRequestFirst(op) ==
    CASE op = "getOctokit"            -> "issues.get"
      [] op = "issues.get"            -> "addLabels.processing"
      [] op = "addLabels.processing"  -> "repos.get"
      [] op = "repos.get"             -> "listCommits"
      [] op = "listCommits"           -> "createRef"
      [] op = "createWorkflowDispatch" -> "createComment.started"
      [] op = "getContent"            -> "createBlob"
      [] op = "createBlob"            -> "createTree"
      [] op = "createTree"            -> "createCommit"
      [] op = "createCommit"          -> "pulls.create"
      [] op = "pulls.create"          -> "updateRef"
      [] op = "updateRef"             -> "addLabels.generated"
      [] op = "addLabels.generated"   -> "createComment.pr"
      [] op = "createComment.pr"      -> "removeLabel"
      [] op = "removeLabel"           -> "addLabels.processed"
      [] op = "addLabels.processed"   -> "done"

\* The straight-line order of the awaited calls in the try block.
Successor(op) ==
    CASE op = "getOctokit"            -> "issues.get"
      [] op = "issues.get"            -> "addLabels.processing"
      [] op = "addLabels.processing"  -> "repos.get"
      [] op = "repos.get"             -> "listCommits"
      [] op = "listCommits"           -> "createRef"
      [] op = "createWorkflowDispatch" -> "createComment.started"
      [] op = "getContent"            -> "createBlob"
      [] op = "createBlob"            -> "createTree"
      [] op = "createTree"            -> "createCommit"
      [] op = "createCommit"          -> "updateRef"
      [] op = "updateRef"             -> "pulls.create"
      [] op = "pulls.create"          -> "addLabels.generated"
      [] op = "addLabels.generated"   -> "createComment.pr"
      [] op = "createComment.pr"      -> "removeLabel"
      [] op = "removeLabel"           -> "addLabels.processed"
      [] op = "addLabels.processed"   -> "done"

OnReply_IgnoreFailure(op, res) == Successor(op)

\* An awaited call that rejects throws into the catch block.
OnReply(op, res) == IF res = "ok" THEN Successor(op) ELSE "catch"

AfterCreateRef_Continue(res) == "listRepoWorkflows"

\* await octokit.git.createRef(...): no handler of its own.
AfterCreateRef(res) == IF res = "ok" THEN "listRepoWorkflows" ELSE "catch"

AfterListWorkflows_FailureThrows(res) ==
    IF res = "present" THEN "createWorkflowDispatch"
    ELSE IF res = "fail" THEN "catch"
    ELSE "getContent"

\* hasWorkflow stays false when the listing throws or names no such workflow.
AfterListWorkflows(res) ==
    IF res = "present" THEN "createWorkflowDispatch" ELSE "getContent"

AfterStartedComment_FallThrough(res) ==
    IF res = "ok" THEN "getContent" ELSE "catch"

\* the `return` that ends the workflow path
AfterStartedComment(res) == IF res = "ok" THEN "done" ELSE "catch"

Call(d, op, res, next) ==
    /\ pc[d] = op
    /\ log' = [log EXCEPT ![d] = Append(@, [op |-> op, res |-> res])]
    /\ pc' = [pc EXCEPT ![d] = next]
    /\ err' = [err EXCEPT ![d] = IF next = "catch" THEN op ELSE @]
    /\ UNCHANGED <<httpVars, verVars, tokVars, redVars>>

\* A call with no effect this model tracks on the GitHub side.
Plain(d, op) ==
    /\ \E res \in {"ok", "fail"} : Call(d, op, res, OnReply(op, res))
    /\ UNCHANGED <<issueLabels, branchExists>>

ProcessIssue(d) ==
    /\ pc[d] = "idle"
    /\ pc' = [pc EXCEPT ![d] = "getOctokit"]
    /\ UNCHANGED <<log, err, issueLabels, branchExists, httpVars, verVars, tokVars, redVars>>

GetOctokit(d) ==
    /\ pc[d] = "getOctokit"
    /\ Plain(d, "getOctokit")

IssuesGet(d) ==
    /\ pc[d] = "issues.get"
    /\ Plain(d, "issues.get")

AddProcessingLabel(d) ==
    \E res \in {"ok", "fail"} :
        /\ Call(d, "addLabels.processing", res, OnReply("addLabels.processing", res))
        /\ issueLabels' = IF res = "ok" THEN issueLabels \cup {"ai-processing"}
                          ELSE issueLabels
        /\ UNCHANGED branchExists

ReposGet(d) ==
    /\ pc[d] = "repos.get"
    /\ Plain(d, "repos.get")

\* commits[0].sha throws a TypeError when the list is empty.
ListCommits(d) ==
    /\ \E res \in {"ok", "empty", "fail"} :
          Call(d, "listCommits", res, OnReply("listCommits", res))
    /\ UNCHANGED <<issueLabels, branchExists>>

\* GitHub refuses to create a ref that exists.
CreateRef(d) ==
    \E res \in {"ok", "fail"} :
        /\ res = "ok" => ~branchExists
        /\ Call(d, "createRef", res, AfterCreateRef(res))
        /\ branchExists' = (branchExists \/ res = "ok")
        /\ UNCHANGED issueLabels

ListRepoWorkflows(d) ==
    /\ \E res \in {"present", "absent", "fail"} :
          Call(d, "listRepoWorkflows", res, AfterListWorkflows(res))
    /\ UNCHANGED <<issueLabels, branchExists>>

CreateWorkflowDispatch(d) ==
    /\ pc[d] = "createWorkflowDispatch"
    /\ Plain(d, "createWorkflowDispatch")

CommentStarted(d) ==
    /\ \E res \in {"ok", "fail"} :
          Call(d, "createComment.started", res, AfterStartedComment(res))
    /\ UNCHANGED <<issueLabels, branchExists>>

\* repos.getContent(...).catch(() => ({ data: null }))
GetContent(d) ==
    /\ \E res \in {"ok", "fail"} :
          Call(d, "getContent", res, Successor("getContent"))
    /\ UNCHANGED <<issueLabels, branchExists>>

CreateBlob(d) ==
    /\ pc[d] = "createBlob"
    /\ Plain(d, "createBlob")

CreateTree(d) ==
    /\ pc[d] = "createTree"
    /\ Plain(d, "createTree")

CreateCommit(d) ==
    /\ pc[d] = "createCommit"
    /\ Plain(d, "createCommit")

UpdateRef(d) ==
    /\ pc[d] = "updateRef"
    /\ Plain(d, "updateRef")

PullsCreate(d) ==
    /\ pc[d] = "pulls.create"
    /\ Plain(d, "pulls.create")

LabelPullRequest(d) ==
    /\ pc[d] = "addLabels.generated"
    /\ Plain(d, "addLabels.generated")

CommentPullRequest(d) ==
    /\ pc[d] = "createComment.pr"
    /\ Plain(d, "createComment.pr")

\* removeLabel(...).catch(() => {}); GitHub answers 404 when the label is
\* not on the issue.
RemoveProcessingLabel(d) ==
    \E res \in {"ok", "fail"} :
        /\ res = "ok" => "ai-processing" \in issueLabels
        /\ Call(d, "removeLabel", res, Successor("removeLabel"))
        /\ issueLabels' = IF res = "ok" THEN issueLabels \ {"ai-processing"}
                          ELSE issueLabels
        /\ UNCHANGED branchExists

AddProcessedLabel(d) ==
    \E res \in {"ok", "fail"} :
        /\ Call(d, "addLabels.processed", res, OnReply("addLabels.processed", res))
        /\ issueLabels' = IF res = "ok" THEN issueLabels \cup {"ai-processed"}
                          ELSE issueLabels
        /\ UNCHANGED branchExists

AfterErrorComment_NoInnerTry(thrown) == "rejected"

\* try { ...createComment...; ...removeLabel... } catch (commentError) {
\* console.error(...) }: whatever the error comment throws is logged, and
\* processIssue runs on to its last line and resolves.
AfterErrorComment(thrown) == "done"

\* catch (error): `octokit` is a const of the try block and not in scope, so
\* octokit.issues.createComment throws a ReferenceError, which the inner
\* try/catch logs. No upstream call is made. (The second `catch (error)`
\* clause after it has nothing left to catch.)
CatchError(d) ==
    /\ pc[d] = "catch"
    /\ pc' = [pc EXCEPT ![d] = AfterErrorComment("ReferenceError")]
    /\ UNCHANGED <<log, err, issueLabels, branchExists, httpVars, verVars, tokVars, redVars>>

---------------------------------------------------------------------------
(* The installation-token providers: getOctokit of index.js (both copies)  *)
(* and of part_000, getInstallationToken of index.new.js                   *)

TokenVariants == {"app", "fallback", "mock", "new"}

\* What the provider hands to its caller when the acquisition fails.
\*   app:      no try/catch, the async function rejects;
\*   new:      the catch block rethrows;
\*   fallback: both catch blocks evaluate getFallbackOctokit(env), and env
\*             is not a binding of getOctokit: ReferenceError, rejects;
\*   mock:     the inner catch throws a ReferenceError at `owner`, the outer
\*             catch returns getFallbackOctokit(), the mock client.
OnTokenFailure(ver) ==
    CASE ver = "app"      -> "rejected"
      [] ver = "new"      -> "rejected"
      [] ver = "fallback" -> "rejected"
      [] ver = "mock"     -> "substitute"

\* Promise.race([tokenPromise, timeoutPromise]) with a 2-second setTimeout
HasTokenTimer(ver) == ver \in {"fallback", "mock"}

\* The provider is called: createAppAuth(...) and the start of the token
\* exchange (createJWT of index.new.js returns a constant and cannot throw).
TokenRequest(d) ==
    /\ tpc[d] = "start"
    /\ IF tAuth = "throw" /\ tVer # "new"
       THEN /\ tpc' = [tpc EXCEPT ![d] = OnTokenFailure(tVer)]
            /\ tCause' = [tCause EXCEPT ![d] = "auth_throw"]
            /\ UNCHANGED tTimer
       ELSE /\ tpc' = [tpc EXCEPT ![d] = "waiting"]
            /\ tTimer' = [tTimer EXCEPT ![d] =
                              IF HasTokenTimer(tVer) THEN "armed" ELSE "off"]
            /\ UNCHANGED tCause
    /\ UNCHANGED <<tVer, tAuth, httpVars, procVars, verVars, redVars>>

\* The token exchange answers; the timer is never cleared.
TokenReply(d) ==
    /\ tpc[d] = "waiting"
    /\ \E ok \in BOOLEAN :
          IF ok
          THEN /\ tpc' = [tpc EXCEPT ![d] = "client"]
               /\ UNCHANGED tCause
          ELSE /\ tpc' = [tpc EXCEPT ![d] = OnTokenFailure(tVer)]
               /\ tCause' = [tCause EXCEPT ![d] = "token_failed"]
    /\ UNCHANGED <<tVer, tAuth, tTimer, httpVars, procVars, verVars, redVars>>

\* The 2-second timer fires: timeoutPromise rejects; without effect when
\* the race is already settled.
TokenTimeout(d) ==
    /\ tTimer[d] = "armed"
    /\ tTimer' = [tTimer EXCEPT ![d] = "fired"]
    /\ IF tpc[d] = "waiting"
       THEN /\ tpc' = [tpc EXCEPT ![d] = OnTokenFailure(tVer)]
            /\ tCause' = [tCause EXCEPT ![d] = "timeout"]
       ELSE UNCHANGED <<tpc, tCause>>
    /\ UNCHANGED <<tVer, tAuth, httpVars, procVars, verVars, redVars>>

---------------------------------------------------------------------------
(* The verifier applied as a function                                      *)

SigAlphabet == {"0", "1", "f", "s", "x"}

\* Every value that differs from s in exactly one position.
Mutations(s, alphabet) ==
    { [s EXCEPT ![i] = c] : i \in DOMAIN s, c \in alphabet } \ {s}

ReadClone_Original(used) == TRUE

\* request.clone().text(): reading the clone leaves the original's body
\* stream as it was.
ReadClone(used) == used

NotParsed == [st |-> "none", bytes |-> <<>>]

\* The "app" verifier reads the body once a signature header is present;
\* the later copies return before touching the request.
ApplyVerify ==
    /\ vResult = "none"
    /\ vResult' = verifyWebhookSignature(vVer, vSig, vBody, vSecret)
    /\ vBodyUsed' = IF vVer = "app" /\ vSig # NoSig THEN ReadClone(vBodyUsed)
                    ELSE vBodyUsed
    /\ UNCHANGED <<vVer, vBody, vSecret, vSig, vParsed, httpVars, procVars, tokVars, redVars>>

\* await request.json() on the original request: a TypeError when its body
\* was already read, the body bytes otherwise.
RequestJson ==
    /\ vResult # "none"
    /\ vParsed = NotParsed
    /\ vParsed' = IF vBodyUsed THEN [st |-> "throw", bytes |-> <<>>]
                  ELSE [st |-> "ok", bytes |-> vBody]
    /\ vBodyUsed' = TRUE
    /\ UNCHANGED <<vVer, vBody, vSecret, vSig, vResult, httpVars, procVars, tokVars, redVars>>

---------------------------------------------------------------------------
(* Specifications                                                          *)

HttpIdle ==
    /\ variant = "app"
    /\ secret = <<>>
    /\ patSet = FALSE
    /\ req = [method |-> "GET", path |-> "/", sig |-> NoSig, shape |-> "ok",
              event |-> "issues", action |-> "labeled", label |-> TriggerLabel]
    /\ hpc = "start"
    /\ resp = NoResp
    /\ sigResult = "none"
    /\ parsed = FALSE
    /\ invoked = FALSE
    /\ calls = <<>>
    /\ proc = "idle"
    /\ timer = "off"

ProcIdle ==
    /\ pc = [d \in Deliveries |-> "idle"]
    /\ log = [d \in Deliveries |-> <<>>]
    /\ err = [d \in Deliveries |-> "none"]
    /\ issueLabels = {}
    /\ branchExists = FALSE

VerIdle ==
    /\ vVer = "app"
    /\ vBody = <<>>
    /\ vSecret = <<>>
    /\ vSig = NoSig
    /\ vResult = "none"
    /\ vBodyUsed = FALSE
    /\ vParsed = NotParsed

TokIdle ==
    /\ tVer = "app"
    /\ tAuth = "ok"
    /\ tpc = [d \in Deliveries |-> "start"]
    /\ tTimer = [d \in Deliveries |-> "off"]
    /\ tCause = [d \in Deliveries |-> "none"]

RedIdle ==
    /\ round = 1
    /\ prior = [resp |-> NoResp, calls |-> <<>>, invoked |-> FALSE]

\* One request arrives at one deployed variant.
Init ==
    /\ variant \in Variants
    /\ secret \in {<<>>, WebhookSecret}
    /\ patSet \in BOOLEAN
    /\ req \in Requests
    /\ hpc = "start"
    /\ resp = NoResp
    /\ sigResult = "none"
    /\ parsed = FALSE
    /\ invoked = FALSE
    /\ calls = <<>>
    /\ proc = "idle"
    /\ timer = "off"
    /\ ProcIdle
    /\ VerIdle
    /\ TokIdle
    /\ RedIdle

Next ==
    \/ RouterFetch
    \/ MockProcess
    \/ FallbackDispatchReply
    \/ FallbackTimer
    \/ NewFetch
    \/ NewTokenReply
    \/ NewCommentReply
    \/ NewLabelReply
    \/ SimpleFetch
    \/ SimpleCommentReply
    \/ SimpleCommentAbort
    \/ SimpleLabelReply

Spec == Init /\ [][Next]_vars

\* One request delivered to one deployed variant, then delivered again.
NextRedeliver ==
    \/ Next
    \/ Redeliver

SpecRedeliver == Init /\ [][NextRedeliver]_vars

\* The handler's own steps and the timers are scheduled; the upstream API
\* is not obliged to answer any call.
SpecFair ==
    /\ Spec
    /\ WF_vars(RouterFetch)
    /\ WF_vars(NewFetch)
    /\ WF_vars(SimpleFetch)
    /\ WF_vars(MockProcess)
    /\ WF_vars(FallbackTimer)
    /\ WF_vars(SimpleCommentAbort)

\* processIssue of the "app" variant invoked for each delivery of the same
\* issue; the branch may be left over from an earlier delivery. It is
\* invoked as a function: under Spec the "app" handler stops every POST at
\* verifyWebhookSignature, and the later copies of processIssue return at
\* forceFallback before their try block.
InitProc ==
    /\ HttpIdle
    /\ VerIdle
    /\ TokIdle
    /\ RedIdle
    /\ pc = [d \in Deliveries |-> "idle"]
    /\ log = [d \in Deliveries |-> <<>>]
    /\ err = [d \in Deliveries |-> "none"]
    /\ issueLabels = {}
    /\ branchExists \in BOOLEAN

NextProc ==
    \E d \in Deliveries :
        \/ ProcessIssue(d)
        \/ GetOctokit(d)
        \/ IssuesGet(d)
        \/ AddProcessingLabel(d)
        \/ ReposGet(d)
        \/ ListCommits(d)
        \/ CreateRef(d)
        \/ ListRepoWorkflows(d)
        \/ CreateWorkflowDispatch(d)
        \/ CommentStarted(d)
        \/ GetContent(d)
        \/ CreateBlob(d)
        \/ CreateTree(d)
        \/ CreateCommit(d)
        \/ UpdateRef(d)
        \/ PullsCreate(d)
        \/ LabelPullRequest(d)
        \/ CommentPullRequest(d)
        \/ RemoveProcessingLabel(d)
        \/ AddProcessedLabel(d)
        \/ CatchError(d)

SpecProc == InitProc /\ [][NextProc]_vars

\* verifyWebhookSignature applied to a body, a secret and a header value:
\* absent, the true signature, the signature of a body one byte away, or
\* the true signature with one character changed.
InitVerify ==
    /\ HttpIdle
    /\ ProcIdle
    /\ TokIdle
    /\ RedIdle
    /\ vVer \in {"app", "fallback"}
    /\ vBody \in SeqsUpTo(Bytes, MaxBodyLen)
    /\ vSecret \in SeqsUpTo(Bytes, MaxSecretLen)
    /\ vSig \in {NoSig, HeaderFor(vSecret, vBody)}
                  \cup { HeaderFor(vSecret, b) : b \in Mutations(vBody, Bytes) }
                  \cup Mutations(HeaderFor(vSecret, vBody), SigAlphabet)
    /\ vResult = "none"
    /\ vBodyUsed = FALSE
    /\ vParsed = NotParsed

NextVerify ==
    \/ ApplyVerify
    \/ RequestJson

SpecVerify == InitVerify /\ [][NextVerify]_vars

\* The token provider of one deployment called for each delivery; the
\* app's configuration makes createAppAuth throw or not.
InitToken ==
    /\ HttpIdle
    /\ ProcIdle
    /\ VerIdle
    /\ RedIdle
    /\ tVer \in TokenVariants
    /\ tAuth \in IF tVer = "new" THEN {"ok"} ELSE {"ok", "throw"}
    /\ tpc = [d \in Deliveries |-> "start"]
    /\ tTimer = [d \in Deliveries |-> "off"]
    /\ tCause = [d \in Deliveries |-> "none"]

NextToken ==
    \E d \in Deliveries :
        \/ TokenRequest(d)
        \/ TokenReply(d)
        \/ TokenTimeout(d)

SpecToken == InitToken /\ [][NextToken]_vars

\* The provider's own steps and its timers are scheduled; the token
\* exchange is not obliged to answer.
SpecTokenFair ==
    /\ SpecToken
    /\ \A d \in Deliveries :
          WF_vars(TokenRequest(d)) /\ WF_vars(TokenTimeout(d))

---------------------------------------------------------------------------
(* Properties                                                              *)

IsWebhookPost == req.method = "POST" /\ req.path = "/webhook"

\* The handler has returned or failed.
HandlerEnded == hpc \in {"responded", "crashed"}

CallsOf(op) == { i \in DOMAIN calls : calls[i].op = op }

Settled == \A i \in DOMAIN calls : calls[i].st # "pending"

\* Nothing of the delivery is left to run.
Quiescent == HandlerEnded /\ Settled /\ proc # "running"

TerminalLabelOps == {"remove_label_ai_processing", "add_label_ai_processed"}

Entries(d, op) == { i \in DOMAIN log[d] : log[d][i].op = op }
OkEntries(d, op) == { i \in Entries(d, op) : log[d][i].res = "ok" }
Replied(d, op, res) == \E i \in Entries(d, op) : log[d][i].res = res

\* C1: a triggering POST /webhook delivery (well-formed, accepted, every
\* upstream call answered with success) has issued exactly one "add label
\* ai-processing" upstream call when its processing ends, and issued it
\* before any terminal label change (removal of ai-processing, addition of
\* ai-processed).
C1_ExactlyOneProcessingLabel ==
    (/\ IsWebhookPost
     /\ req.shape = "ok"
     /\ invoked
     /\ Quiescent
     /\ resp.status \in {200, 202}
     /\ \A i \in DOMAIN calls : calls[i].st = "ok") =>
        /\ Cardinality(CallsOf("add_label_ai_processing")) = 1
        /\ \A i \in CallsOf("add_label_ai_processing") :
              \A j \in DOMAIN calls :
                  calls[j].op \in TerminalLabelOps => i < j

\* C2: a POST /webhook delivery whose label name is not "aider-pro" makes no
\* upstream call and starts no issue processing whatever its event and
\* action, and once it has passed the signature stage it is answered with
\* the 200 no-op acknowledgement.
C2_NonTriggerIsNoop ==
    (/\ IsWebhookPost
     /\ req.shape \notin {"badjson", "nolabel"}
     /\ req.label # TriggerLabel)
    => /\ calls = <<>>
       /\ ~invoked
       /\ proc = "idle"
       /\ parsed => /\ hpc = "responded"
                    /\ resp \in {R(200, "event_received"), R(200, "success")}

\* A labeled event carrying a superstring of the trigger label, acknowledged.
C2_Witness ==
    /\ IsWebhookPost
    /\ variant = "fallback"
    /\ req.shape = "ok"
    /\ req.event = "issues"
    /\ req.action = "labeled"
    /\ req.label = TriggerLabel \o <<"-", "x">>
    /\ resp = R(200, "event_received")

\* C3: the issue processor is invoked if and only if event = "issues",
\* action = "labeled" and the label name is exactly "aider-pro" (no
\* other-case variant, prefix, suffix or superstring); the "if" direction is
\* for deliveries with a complete payload that reached the dispatcher.
C3_DispatchDecision ==
    /\ invoked => /\ req.event = "issues"
                  /\ req.action = "labeled"
                  /\ req.label = TriggerLabel
    /\ (/\ parsed
        /\ req.shape = "ok"
        /\ req.event = "issues"
        /\ req.action = "labeled"
        /\ req.label = TriggerLabel) => invoked

\* The processor started for an "aider-pro" delivery, answered 202.
C3_Witness ==
    /\ invoked
    /\ req.label = TriggerLabel
    /\ resp = R(202, "processing")

\* C4: the acknowledgement of a triggering delivery is returned without
\* waiting for upstream calls: no upstream call settles before the response,
\* and the response is the same acknowledgement whether calls fail or not.
C4_AckWithoutWaiting ==
    /\ (\E i \in DOMAIN calls : calls[i].st # "pending") => hpc = "responded"
    /\ (invoked /\ hpc = "responded" /\ calls # <<>>)
          => resp \in {R(202, "processing"), R(200, "success")}

\* C5: the HTTP entry point always returns a response, 401 or 500 when
\* verification or parsing fails; it never ends without one (stated for the
\* requests whose signature check itself returned, so that a failure here is
\* one of parsing or dispatching).
C5_AlwaysResponds ==
    /\ sigResult # "throw" => hpc # "crashed"
    /\ (hpc = "responded" /\ IsWebhookPost /\ req.shape = "badjson")
          => resp.status \in {401, 500}

\* C6: a POST /webhook without an x-hub-signature-256 header is answered
\* 401 and neither parsed, dispatched nor followed by an upstream call.
C6_MissingSignatureRejected ==
    (IsWebhookPost /\ req.sig = NoSig /\ hpc # "start")
    => /\ resp = R(401, "unauthorized")
       /\ ~parsed
       /\ ~invoked
       /\ calls = <<>>

\* C7: a POST /webhook whose signature header does not match the HMAC of
\* the body under WEBHOOK_SECRET, or that arrives while WEBHOOK_SECRET is
\* unset, is refused by the verifier, answered 401 when it is answered, and
\* never reaches the issue processor.
C7_BadSignatureRejected ==
    (/\ IsWebhookPost
     /\ req.sig # NoSig
     /\ (secret = <<>> \/ req.sig # HeaderFor(secret, SampleBody))
     /\ hpc # "start")
    => /\ hpc = "responded" => resp = R(401, "unauthorized")
       /\ sigResult \in {"true", "false"} => sigResult = "false"
       /\ ~invoked

\* C8: for every body B and (non-empty) secret S, verify(B, "sha256=" +
\* hmacHex(S, B), S) is true, and it is false for a body or a signature that
\* differs in one byte.
C8_VerifyRoundTrip ==
    (vResult # "none" /\ vSecret # <<>> /\ vSig # NoSig) =>
        IF vSig = HeaderFor(vSecret, vBody) THEN vResult = "true"
        ELSE vResult = "false"

\* C9: once create-ref has failed for a delivery, that delivery makes no
\* create-blob, create-tree, create-commit, update-ref or create-pull-request
\* call and no second create-ref call.
C9_NothingAfterFailedRef ==
    \A d \in Deliveries :
        \A i \in Entries(d, "createRef") :
            log[d][i].res # "ok" =>
                \A j \in DOMAIN log[d] :
                    j > i => log[d][j].op \notin
                        {"createRef", "createBlob", "createTree",
                         "createCommit", "updateRef", "pulls.create"}

\* A delivery that ended after its create-ref call failed.
C9_Witness ==
    \E d \in Deliveries :
        /\ pc[d] = "done"
        /\ err[d] = "createRef"
        /\ Replied(d, "createRef", "fail")

PlaceholderOps == {"createBlob", "createTree", "createCommit", "pulls.create"}

\* C10: when the workflow list holds the automation workflow, the processor
\* dispatches it (once) and makes no placeholder blob, tree, commit or
\* pull-request call; when the list does not hold it, the processor
\* dispatches nothing, never makes more than one commit and one pull
\* request, and a run that reaches its end has made exactly one of each.
C10_DelegateOrPlaceholder ==
    \A d \in Deliveries :
        /\ Replied(d, "listRepoWorkflows", "present") =>
              /\ \A i \in DOMAIN log[d] : log[d][i].op \notin PlaceholderOps
              /\ Cardinality(Entries(d, "createWorkflowDispatch")) <= 1
              /\ pc[d] = "done" =>
                    Cardinality(Entries(d, "createWorkflowDispatch")) = 1
        /\ Replied(d, "listRepoWorkflows", "absent") =>
              /\ Entries(d, "createWorkflowDispatch") = {}
              /\ Cardinality(Entries(d, "createCommit")) <= 1
              /\ Cardinality(Entries(d, "pulls.create")) <= 1
              /\ (pc[d] = "done" /\ err[d] = "none") =>
                    /\ Cardinality(OkEntries(d, "createCommit")) = 1
                    /\ Cardinality(OkEntries(d, "pulls.create")) = 1

\* A run without the workflow that reached its end with one pull request.
C10_Witness ==
    \E d \in Deliveries :
        /\ pc[d] = "done"
        /\ err[d] = "none"
        /\ Replied(d, "listRepoWorkflows", "absent")
        /\ Cardinality(OkEntries(d, "pulls.create")) = 1


OpsOf(d) == [i \in DOMAIN log[d] |-> log[d][i].op]

IsPrefix(s, t) == Len(s) <= Len(t) /\ \A i \in DOMAIN s : s[i] = t[i]

\* Every call of the delivery so far succeeded and the workflow list, if
\* answered, did not hold the automation workflow.
AllSucceededNoWorkflow(d) ==
    \A i \in DOMAIN log[d] :
        IF log[d][i].op = "listRepoWorkflows" THEN log[d][i].res = "absent"
        ELSE log[d][i].res = "ok"

PlaceholderOrder ==
    << "getOctokit", "issues.get", "addLabels.processing", "repos.get",
       "listCommits", "createRef", "listRepoWorkflows", "getContent",
       "createBlob", "createTree", "createCommit", "updateRef",
       "pulls.create", "addLabels.generated", "createComment.pr",
       "removeLabel", "addLabels.processed" >>

\* C11: in a processor run on a repository without the automation workflow
\* in which every upstream call succeeds, the calls are made in this order,
\* each once: ai-processing added; latest commit of the default branch read
\* and the branch ref created; blob, tree, commit created; the ref updated;
\* the pull request opened; the pull request labeled ai-generated; the issue
\* commented; ai-processing removed; ai-processed added. A run that ended
\* has made all of them.
C11_PlaceholderOrder ==
    \A d \in Deliveries :
        AllSucceededNoWorkflow(d) =>
            /\ IsPrefix(OpsOf(d), PlaceholderOrder)
            /\ pc[d] = "done" => OpsOf(d) = PlaceholderOrder

\* A run that went through the whole placeholder path without a failure.
C11_Witness ==
    \E d \in Deliveries :
        /\ pc[d] = "done"
        /\ err[d] = "none"
        /\ AllSucceededNoWorkflow(d)
        /\ Replied(d, "listRepoWorkflows", "absent")
        /\ Replied(d, "addLabels.processed", "ok")

\* C12: when the create-ref call of a delivery is refused (the branch
\* exists), the processor posts a comment on the issue with the error
\* message, removes the ai-processing label and creates no pull request.
C12_ConflictReported ==
    \A d \in Deliveries :
        (pc[d] = "done" /\ err[d] = "createRef") =>
            /\ \E i \in Entries(d, "createComment.error") :
                  \A j \in Entries(d, "createRef") : j < i
            /\ \E i \in Entries(d, "removeLabel") :
                  \A j \in Entries(d, "createRef") : j < i
            /\ "ai-processing" \notin issueLabels
            /\ Entries(d, "pulls.create") = {}

\* No call of the delivery was answered with a failure.
NoCallFailed(d) ==
    \A i \in DOMAIN log[d] : log[d][i].res \in {"ok", "present", "absent"}

\* C13: every processor run in which no upstream call fails, on the
\* workflow-dispatch path and on the placeholder path alike, ends having
\* removed ai-processing and added ai-processed; and a run adds ai-processed
\* only after it has added ai-processing itself.
C13_LabelLifecycle ==
    \A d \in Deliveries :
        /\ (pc[d] = "done" /\ err[d] = "none" /\ NoCallFailed(d)) =>
              /\ OkEntries(d, "removeLabel") # {}
              /\ OkEntries(d, "addLabels.processed") # {}
        /\ \A i \in Entries(d, "addLabels.processed") :
              \E j \in OkEntries(d, "addLabels.processing") : j < i

\* C14: when obtaining the installation credential fails (createAppAuth
\* throws, the token request fails, or it times out) the provider hands back
\* no mock or fallback client in its place, and the delivery makes no label,
\* comment, branch, pull-request or dispatch call afterwards.
C14_NoSubstituteCredential ==
    \A d \in Deliveries :
        /\ tCause[d] # "none" => tpc[d] = "rejected"
        /\ err[d] = "getOctokit" => OpsOf(d) = <<"getOctokit">>

\* C15: a token request that is under way always ends, answered or not, and
\* a request that ran into its deadline is reported as failed.
C15_TokenRequestBounded ==
    /\ \A d \in Deliveries : (tpc[d] = "waiting") ~> (tpc[d] # "waiting")
    /\ [](\A d \in Deliveries : tCause[d] = "timeout" => tpc[d] = "rejected")

\* C16: under fair scheduling of the handler's steps and of the timers,
\* every delivery eventually finishes even if the upstream API never answers:
\* the handler has ended, no upstream call is left pending and the detached
\* processor has reached its end.
C16_EveryDeliveryFinishes == <>[]Quiescent

\* C17: once an upstream call of the processor has failed, the delivery makes
\* no further call of the sequence (only the error comment and the label
\* removal that goes with it may follow), it attempts at most one error
\* comment, and when it has stopped it has attempted exactly one.
C17_OneErrorCommentThenStop ==
    \A d \in Deliveries :
        \A i \in DOMAIN log[d] :
            log[d][i].res = "fail" =>
                /\ \A j \in DOMAIN log[d] :
                      j > i => log[d][j].op \in {"createComment.error", "removeLabel"}
                /\ Cardinality(Entries(d, "createComment.error")) <= 1
                /\ pc[d] = "done" =>
                      Cardinality(Entries(d, "createComment.error")) = 1

C19_OnlyTwoRoutesServed ==
    (/\ ~(req.method = "GET" /\ req.path = "/")
     /\ ~IsWebhookPost) =>
        /\ calls = <<>>
        /\ ~parsed
        /\ ~invoked
        /\ hpc # "start" => (hpc = "responded" /\ resp.status \in {404, 405})

\* C20: an answered POST /webhook has status 202 exactly when issue
\* processing was dispatched for it, and status 200 exactly when it was
\* acknowledged as a no-op, and then the body is the acknowledgement that
\* carries the observed event and action.
C20_StatusTellsOutcome ==
    (IsWebhookPost /\ hpc = "responded") =>
        /\ resp.status = 202 <=> invoked
        /\ resp.status = 200 <=> (parsed /\ ~invoked)
        /\ resp.status = 200 => resp.kind = "event_received"

CommentOps == {"createComment.started", "createComment.pr", "createComment.error"}

\* The delivery has made a call of one of the given kinds.
HasCall(d, ops) == \E i \in DOMAIN log[d] : log[d][i].op \in ops

\* C21: of two deliveries for the same issue that both reach the create-ref
\* step, at most one creates the ref and the other fails at that step, and
\* each of them has made its own add-label call and, when it has ended, its
\* own comment call.
C21_OverlappingDeliveriesRace ==
    /\ Cardinality({ d \in Deliveries : OkEntries(d, "createRef") # {} }) <= 1
    /\ \A d1, d2 \in Deliveries :
          (/\ d1 # d2
           /\ OkEntries(d1, "createRef") # {}
           /\ Entries(d2, "createRef") # {}) =>
              /\ err[d2] = "createRef"
              /\ HasCall(d1, {"addLabels.processing"})
              /\ HasCall(d2, {"addLabels.processing"})
              /\ pc[d1] = "done" => HasCall(d1, CommentOps)
              /\ pc[d2] = "done" => HasCall(d2, CommentOps)

\* The redelivery got the same upstream replies as the first delivery, as far
\* as both made calls.
SameReplies ==
    \A j \in DOMAIN calls \cap DOMAIN prior.calls :
        calls[j].st = prior.calls[j].st

StepsAfterRef ==
    { "createWorkflowDispatch", "createComment.started", "createBlob",
      "createTree", "createCommit", "updateRef", "pulls.create",
      "addLabels.generated", "createComment.pr", "addLabels.processed" }

\* C23: when a step after a successful create-ref fails, the delivery makes
\* no call that undoes what it did (the only calls that may follow are the
\* error comment and the removal of the tracking label), and the branch it
\* created is still in the repository, also when the delivery has ended.
C23_NoCompensation ==
    \A d \in Deliveries :
        \A i \in DOMAIN log[d] :
            (/\ log[d][i].op \in StepsAfterRef
             /\ log[d][i].res = "fail"
             /\ \E k \in OkEntries(d, "createRef") : k < i) =>
                /\ \A j \in DOMAIN log[d] :
                      j > i => log[d][j].op \in {"createComment.error", "removeLabel"}
                /\ pc[d] \in {"catch", "done"}
                /\ branchExists

\* A delivery that ended after its commit call failed, the branch left behind.
C23_Witness ==
    \E d \in Deliveries :
        /\ pc[d] = "done"
        /\ err[d] = "createCommit"
        /\ OkEntries(d, "createRef") # {}
        /\ OkEntries(d, "createTree") # {}
        /\ branchExists

C25_ProcessIssueNeverRejects ==
    \A d \in Deliveries :
        /\ pc[d] # "rejected"
        /\ (err[d] # "none" /\ pc[d] # "catch") => pc[d] = "done"

\* A run whose token exchange failed and that resolved all the same.
C25_Witness ==
    \E d \in Deliveries :
        /\ err[d] = "getOctokit"
        /\ Replied(d, "getOctokit", "fail")
        /\ pc[d] = "done"

\* C26: a failed "list repository workflows" call does not fail the
\* delivery: the call after it is the first of the placeholder path, no
\* workflow is dispatched, no error comment is made for it, and the run can
\* go on to open the pull request.
C26_WorkflowListFailureIsAbsent ==
    \A d \in Deliveries :
        \A i \in Entries(d, "listRepoWorkflows") :
            log[d][i].res = "fail" =>
                /\ err[d] # "listRepoWorkflows"
                /\ pc[d] # "createWorkflowDispatch"
                /\ Entries(d, "createWorkflowDispatch") = {}
                /\ (err[d] = "none" /\ pc[d] # "done") =>
                      pc[d] \in {"getContent"} \cup PlaceholderOps
                                \cup {"updateRef", "addLabels.generated",
                                      "createComment.pr", "removeLabel",
                                      "addLabels.processed"}
                /\ i < Len(log[d]) => log[d][i + 1].op = "getContent"
                /\ (err[d] = "none") => Entries(d, "createComment.error") = {}

\* A run whose workflow listing failed and that opened its pull request.
C26_Witness ==
    \E d \in Deliveries :
        /\ Replied(d, "listRepoWorkflows", "fail")
        /\ OkEntries(d, "pulls.create") # {}
        /\ pc[d] = "done"
        /\ err[d] = "none"

\* The delivery has added ai-processing and has not reached its own label
\* removal or its end.
HoldsProcessingLabel(d) ==
    /\ OkEntries(d, "addLabels.processing") # {}
    /\ Entries(d, "removeLabel") = {}
    /\ pc[d] # "done"

\* C27: while a delivery is between its successful "add ai-processing" call
\* and its own terminal step, the issue carries ai-processing, whatever an
\* overlapping delivery for the same issue does.
C27_LabelHeldWhileProcessing ==
    \A d \in Deliveries :
        HoldsProcessingLabel(d) => "ai-processing" \in issueLabels

\* C28: in the simple handler the label call is made only right after a
\* comment call that succeeded; when the comment call failed or was aborted
\* by the timer no label call is made and the handler answers 200
\* {success: true}; and whatever the label call's outcome the answer is 200
\* {success: true}.
C28_SimpleCommentThenLabel ==
    variant = "simple" =>
        /\ \A i \in CallsOf("add_label_ai_processing") :
              /\ i > 1
              /\ calls[i - 1].op = "create_comment"
              /\ calls[i - 1].st = "ok"
        /\ \A i \in CallsOf("create_comment") :
              calls[i].st \in {"failed", "aborted"} =>
                  /\ CallsOf("add_label_ai_processing") = {}
                  /\ hpc = "responded"
                  /\ resp = R(200, "success")
        /\ \A i \in CallsOf("add_label_ai_processing") :
              calls[i].st # "pending" =>
                  (hpc = "responded" /\ resp = R(200, "success"))

\* The comment call was aborted by the timer and the handler answered 200.
C28_Witness ==
    /\ variant = "simple"
    /\ timer = "fired"
    /\ calls = <<[op |-> "create_comment", st |-> "aborted"]>>
    /\ resp = R(200, "success")

\* C29: in the simple handler with PAT_PAT unset, a triggering delivery is
\* answered 500 with an error body and makes no upstream call, and a
\* delivery that does not trigger is still answered 200.
C29_SimpleWithoutToken ==
    (variant = "simple" /\ ~patSet /\ req.method = "POST" /\ hpc # "start") =>
        /\ calls = <<>>
        /\ invoked => resp = R(500, "error")
        /\ (parsed /\ ~invoked /\ ~Lacks(req.shape, "label")) =>
              resp = R(200, "success")

\* A complete triggering delivery refused for want of the token.
C29_Witness ==
    /\ variant = "simple"
    /\ ~patSet
    /\ IsWebhookPost
    /\ req.shape = "ok"
    /\ invoked
    /\ resp = R(500, "error")

\* C30: at the forced-fallback entry point of index.js a triggering delivery
\* starts exactly one upstream call, the repository dispatch, and none
\* other; processMockIssue has returned true as soon as the call is started;
\* and the delivery is answered 202 whether the call is pending, succeeded,
\* failed or was aborted by the 2-second timer.
C30_FallbackDispatchOnly ==
    variant = "fallback" =>
        /\ invoked =>
              /\ Len(calls) = 1
              /\ calls[1].op = "repository_dispatch"
              /\ proc = "returned_true"
              /\ hpc = "responded"
              /\ resp = R(202, "processing")
        /\ ~invoked => (calls = <<>> /\ proc = "idle")
        /\ timer = "fired" => Len(calls) = 1 /\ calls[1].st \in {"aborted", "failed"}

\* The dispatch request was aborted by the timer after the 202 was returned.
C30_Witness ==
    /\ variant = "fallback"
    /\ invoked
    /\ calls = <<[op |-> "repository_dispatch", st |-> "aborted"]>>
    /\ proc = "returned_true"
    /\ resp = R(202, "processing")

===========================================================================
